---------------------------- MODULE Spec2Model ----------------------------
(***************************************************************************)
(* Library management domain (SGBU): user registry (ModuloUsuarios),       *)
(* catalog registry (ModuloCatalogo), loan coordinator (ModuloEmprestimo). *)
(*                                                                         *)
(* Every public method is one action: the whole call, including the calls  *)
(* it makes into the registries, up to its return or to the exception that *)
(* ends it.  Each method is first an operator on the stores that gives the *)
(* exception raised (`erro`, OK for a normal return) and the stores as the *)
(* call leaves them; the action applies that operator to the state.  A     *)
(* call that raises before any mutation is a stuttering step.              *)
(*                                                                         *)
(* Enum members are represented by their member NAME ("ATIVO"); the        *)
(* `_value` operators give the label the source attaches to each member.   *)
(* Optional values are sequences: <<>> is None, <<v>> is the value v.      *)
(* Registries are functions whose DOMAIN is the set of registered keys;    *)
(* the loan collection is a sequence (the dict's insertion order is        *)
(* observable through the list operations).  Timestamps are whole days.    *)
(* The optional free-text fields email, telefone, editora, ano_publicacao  *)
(* are never read by any operation and are left out of the records.        *)
(***************************************************************************)
EXTENDS Integers, Sequences, FiniteSets, TLC

VARIABLES usuarios, livros, emprestimos, contador_emprestimos, relogio,
          estoque_cadastrado, chamadas, secao_critica

vars == <<usuarios, livros, emprestimos, contador_emprestimos, relogio,
          estoque_cadastrado, chamadas, secao_critica>>

\* The calls of registrar_emprestimo in progress, one per caller, and
\* whether a call runs to its end before another one starts.
concorrencia == <<chamadas, secao_critica>>

\* The three stores and the id counter: what "no mutation" refers to.
estado == <<usuarios, livros, emprestimos, contador_emprestimos>>

-----------------------------------------------------------------------------
\* Bounds of the model: the caps on the loan id counter and on the clock.
MaxEmprestimos == 2
MaxRelogio == 1

\* Program constants.
DiasPadrao == 7
LarguraId == 5
NomeMin == 3
NomeMax == 100

\* Inputs.
Matriculas == {"U1", "U2"}
ISBNs == {"B1", "B2"}
NomePadrao == <<"A", "n", "a">>
TituloPadrao == "Titulo"
AutorPadrao == "Autor"

None == <<>>
Some(v) == <<v>>
OK == "ok"

-----------------------------------------------------------------------------
\* Exceptions (utils.excecoes).
UsuarioNaoEncontradoException == "UsuarioNaoEncontradoException"
UsuarioBloqueadoException == "UsuarioBloqueadoException"
LivroNaoEncontradoException == "LivroNaoEncontradoException"
LivroIndisponvelException == "LivroIndisponvelException"
EstoqueInsuficienteException == "EstoqueInsuficienteException"
EmprestimoJaExisteException == "EmprestimoJaExisteException"
EmprestimoNaoEncontradoException == "EmprestimoNaoEncontradoException"
ValidacaoException == "ValidacaoException"
UsuarioPossuiEmprestimosAtivosException == "UsuarioPossuiEmprestimosAtivosException"

-----------------------------------------------------------------------------
\* Enums.
TipoUsuario == {"ALUNO", "FUNCIONARIO", "PROFESSOR"}
StatusUsuario == {"ATIVO", "BLOQUEADO", "INATIVO"}
StatusLivro == {"DISPONIVEL", "EMPRESTADO", "RESERVADO"}
StatusEmprestimo == {"ATIVO", "DEVOLVIDO", "ATRASADO"}

StatusUsuario_value(s) ==
    CASE s = "ATIVO" -> "Ativo"
      [] s = "BLOQUEADO" -> "Bloqueado"
      [] s = "INATIVO" -> "Inativo"

StatusEmprestimo_value(s) ==
    CASE s = "ATIVO" -> "Ativo"
      [] s = "DEVOLVIDO" -> "Devolvido"
      [] s = "ATRASADO" -> "Atrasado"

\* str.upper() on the strings the model passes as enum names.
upper(s) ==
    CASE s = "aluno" -> "ALUNO"
      [] s = "Aluno" -> "ALUNO"
      [] s = "professor" -> "PROFESSOR"
      [] s = "Funcionário" -> "FUNCIONÁRIO"
      [] s = "emprestado" -> "EMPRESTADO"
      [] s = "reservado" -> "RESERVADO"
      [] s = "Disponível" -> "DISPONÍVEL"
      [] OTHER -> s

-----------------------------------------------------------------------------
\* Loan id: f"EMP-{n:05d}".
Digito(d) ==
    CASE d = 0 -> "0" [] d = 1 -> "1" [] d = 2 -> "2" [] d = 3 -> "3"
      [] d = 4 -> "4" [] d = 5 -> "5" [] d = 6 -> "6" [] d = 7 -> "7"
      [] d = 8 -> "8" [] d = 9 -> "9"

RECURSIVE Decimal(_)
Decimal(n) ==
    IF n < 10 THEN <<Digito(n)>>
    ELSE Append(Decimal(n \div 10), Digito(n % 10))

RECURSIVE ZeroPad(_, _)
ZeroPad(s, w) == IF Len(s) >= w THEN s ELSE ZeroPad(<<"0">> \o s, w)

IdEmprestimo(n) == <<"E", "M", "P", "-">> \o ZeroPad(Decimal(n), LarguraId)

SemId == <<>>

-----------------------------------------------------------------------------
\* ModuloUsuarios.  Each method is an operator on the registry `us` that
\* gives the exception raised (or OK) and the registry the call leaves.
Usuario_validar(matricula, nome, tipo) ==
    IF matricula = "" THEN ValidacaoException
    ELSE IF Len(nome) = 0 THEN ValidacaoException
    ELSE IF Len(nome) < NomeMin THEN ValidacaoException
    ELSE IF Len(nome) > NomeMax THEN ValidacaoException
    ELSE IF tipo \notin TipoUsuario THEN ValidacaoException
    ELSE OK

Usuario(nome, tipo) ==
    [nome |-> nome, tipo |-> tipo, status |-> "ATIVO", emprestimos_ativos |-> 0]

cadastrar_usuario(us, matricula, nome, tipo) ==
    IF matricula \in DOMAIN us
    THEN [erro |-> ValidacaoException, usuarios |-> us]
    ELSE IF upper(tipo) \notin TipoUsuario
    THEN [erro |-> ValidacaoException, usuarios |-> us]
    ELSE IF Usuario_validar(matricula, nome, upper(tipo)) # OK
    THEN [erro |-> Usuario_validar(matricula, nome, upper(tipo)), usuarios |-> us]
    ELSE [erro |-> OK, usuarios |-> us @@ (matricula :> Usuario(nome, upper(tipo)))]

obter_usuario(us, matricula) ==
    IF matricula \notin DOMAIN us THEN UsuarioNaoEncontradoException ELSE OK

\* nome and tipo are Optional: None leaves the field alone.  The name is
\* stored before the type is looked up.
editar_usuario(us, matricula, nome, tipo) ==
    IF obter_usuario(us, matricula) # OK
    THEN [erro |-> obter_usuario(us, matricula), usuarios |-> us]
    ELSE IF nome # None /\ Len(nome[1]) < NomeMin
    THEN [erro |-> ValidacaoException, usuarios |-> us]
    ELSE LET us1 == IF nome # None THEN [us EXCEPT ![matricula].nome = nome[1]]
                    ELSE us
         IN  IF tipo = None THEN [erro |-> OK, usuarios |-> us1]
             ELSE IF upper(tipo[1]) \notin TipoUsuario
             THEN [erro |-> ValidacaoException, usuarios |-> us1]
             ELSE [erro |-> OK,
                   usuarios |-> [us1 EXCEPT ![matricula].tipo = upper(tipo[1])]]

\* Mutant: the counter is not looked at.
remover_usuario_SemVerificacao(us, matricula) ==
    IF obter_usuario(us, matricula) # OK
    THEN [erro |-> obter_usuario(us, matricula), usuarios |-> us]
    ELSE [erro |-> OK,
          usuarios |-> [k \in DOMAIN us \ {matricula} |-> us[k]]]

remover_usuario(us, matricula) ==
    IF obter_usuario(us, matricula) # OK
    THEN [erro |-> obter_usuario(us, matricula), usuarios |-> us]
    ELSE IF us[matricula].emprestimos_ativos > 0
    THEN [erro |-> UsuarioPossuiEmprestimosAtivosException, usuarios |-> us]
    ELSE [erro |-> OK,
          usuarios |-> [k \in DOMAIN us \ {matricula} |-> us[k]]]

bloquear_usuario(us, matricula) ==
    IF obter_usuario(us, matricula) # OK
    THEN [erro |-> obter_usuario(us, matricula), usuarios |-> us]
    ELSE [erro |-> OK, usuarios |-> [us EXCEPT ![matricula].status = "BLOQUEADO"]]

\* Mutant: an unblocked user becomes inactive.
desbloquear_usuario_Inativo(us, matricula) ==
    IF obter_usuario(us, matricula) # OK
    THEN [erro |-> obter_usuario(us, matricula), usuarios |-> us]
    ELSE [erro |-> OK, usuarios |-> [us EXCEPT ![matricula].status = "INATIVO"]]

desbloquear_usuario(us, matricula) ==
    IF obter_usuario(us, matricula) # OK
    THEN [erro |-> obter_usuario(us, matricula), usuarios |-> us]
    ELSE [erro |-> OK, usuarios |-> [us EXCEPT ![matricula].status = "ATIVO"]]

\* Mutant: the counter goes up by two.
incrementar_emprestimos_Dobro(us, matricula) ==
    IF obter_usuario(us, matricula) # OK
    THEN [erro |-> obter_usuario(us, matricula), usuarios |-> us]
    ELSE [erro |-> OK,
          usuarios |-> [us EXCEPT ![matricula].emprestimos_ativos = @ + 2]]

incrementar_emprestimos(us, matricula) ==
    IF obter_usuario(us, matricula) # OK
    THEN [erro |-> obter_usuario(us, matricula), usuarios |-> us]
    ELSE [erro |-> OK,
          usuarios |-> [us EXCEPT ![matricula].emprestimos_ativos = @ + 1]]

\* Mutant: the counter is left as it is.
decrementar_emprestimos_SemDecremento(us, matricula) ==
    IF obter_usuario(us, matricula) # OK
    THEN [erro |-> obter_usuario(us, matricula), usuarios |-> us]
    ELSE [erro |-> OK, usuarios |-> us]

decrementar_emprestimos(us, matricula) ==
    IF obter_usuario(us, matricula) # OK
    THEN [erro |-> obter_usuario(us, matricula), usuarios |-> us]
    ELSE IF us[matricula].emprestimos_ativos > 0
    THEN [erro |-> OK,
          usuarios |-> [us EXCEPT ![matricula].emprestimos_ativos = @ - 1]]
    ELSE [erro |-> OK, usuarios |-> us]

-----------------------------------------------------------------------------
\* ModuloCatalogo, in the same style.
Livro_validar(isbn, titulo, autor, estoque) ==
    IF isbn = "" THEN ValidacaoException
    ELSE IF titulo = "" THEN ValidacaoException
    ELSE IF autor = "" THEN ValidacaoException
    ELSE IF estoque < 0 THEN ValidacaoException
    ELSE OK

Livro(titulo, autor, estoque) ==
    [titulo |-> titulo, autor |-> autor, estoque |-> estoque,
     status |-> "DISPONIVEL"]

cadastrar_livro(ls, isbn, titulo, autor, estoque) ==
    IF isbn \in DOMAIN ls
    THEN [erro |-> ValidacaoException, livros |-> ls]
    ELSE IF Livro_validar(isbn, titulo, autor, estoque) # OK
    THEN [erro |-> Livro_validar(isbn, titulo, autor, estoque), livros |-> ls]
    ELSE [erro |-> OK, livros |-> ls @@ (isbn :> Livro(titulo, autor, estoque))]

obter_livro(ls, isbn) ==
    IF isbn \notin DOMAIN ls THEN LivroNaoEncontradoException ELSE OK

remover_livro(ls, isbn) ==
    IF obter_livro(ls, isbn) # OK
    THEN [erro |-> obter_livro(ls, isbn), livros |-> ls]
    ELSE [erro |-> OK, livros |-> [k \in DOMAIN ls \ {isbn} |-> ls[k]]]

\* Mutant: a stock of zero counts as available.
verificar_disponibilidade_NaoNegativo(ls, isbn) == ls[isbn].estoque >= 0

\* Mutant: only a book whose status is available counts as available.
verificar_disponibilidade_ComStatus(ls, isbn) ==
    ls[isbn].estoque > 0 /\ ls[isbn].status = "DISPONIVEL"

\* Defined on registered books only (it raises for the others).
verificar_disponibilidade(ls, isbn) == ls[isbn].estoque > 0

\* Mutant: the stock is lowered without looking at it.
decrementar_estoque_SemPiso(ls, isbn) ==
    IF obter_livro(ls, isbn) # OK
    THEN [erro |-> obter_livro(ls, isbn), livros |-> ls]
    ELSE [erro |-> OK, livros |-> [ls EXCEPT ![isbn].estoque = @ - 1]]

decrementar_estoque(ls, isbn) ==
    IF obter_livro(ls, isbn) # OK
    THEN [erro |-> obter_livro(ls, isbn), livros |-> ls]
    ELSE IF ls[isbn].estoque <= 0
    THEN [erro |-> EstoqueInsuficienteException, livros |-> ls]
    ELSE [erro |-> OK, livros |-> [ls EXCEPT ![isbn].estoque = @ - 1]]

\* Mutant: the stock is left as it is.
incrementar_estoque_SemIncremento(ls, isbn) ==
    IF obter_livro(ls, isbn) # OK
    THEN [erro |-> obter_livro(ls, isbn), livros |-> ls]
    ELSE [erro |-> OK, livros |-> ls]

incrementar_estoque(ls, isbn) ==
    IF obter_livro(ls, isbn) # OK
    THEN [erro |-> obter_livro(ls, isbn), livros |-> ls]
    ELSE [erro |-> OK, livros |-> [ls EXCEPT ![isbn].estoque = @ + 1]]

atualizar_status(ls, isbn, novo_status) ==
    IF obter_livro(ls, isbn) # OK
    THEN [erro |-> obter_livro(ls, isbn), livros |-> ls]
    ELSE IF upper(novo_status) \notin StatusLivro
    THEN [erro |-> ValidacaoException, livros |-> ls]
    ELSE [erro |-> OK, livros |-> [ls EXCEPT ![isbn].status = upper(novo_status)]]

-----------------------------------------------------------------------------
\* ModuloEmprestimo.
Emprestimo(id, matricula, isbn, data_emprestimo, data_prevista) ==
    [id_emprestimo |-> id, matricula_usuario |-> matricula, isbn_livro |-> isbn,
     data_emprestimo |-> data_emprestimo,
     data_devolucao_prevista |-> data_prevista,
     data_devolucao_real |-> None, status |-> "ATIVO"]

\* Positions of the key `id` in the loan collection.
Posicoes(es, id) == {i \in 1..Len(es) : es[i].id_emprestimo = id}

\* Mutant: a new key goes first.
dict_set_NoInicio(es, id, e) ==
    IF Posicoes(es, id) = {} THEN <<e>> \o es
    ELSE [i \in 1..Len(es) |-> IF es[i].id_emprestimo = id THEN e ELSE es[i]]

\* self._emprestimos[id] = e : a new key goes last, an existing key keeps
\* its place and gets the new value.
dict_set(es, id, e) ==
    IF Posicoes(es, id) = {} THEN Append(es, e)
    ELSE [i \in 1..Len(es) |-> IF es[i].id_emprestimo = id THEN e ELSE es[i]]

\* Mutant: the scan looks for returned loans instead of active ones.
TemEmprestimoAtivo_Devolvido(es, matricula, isbn) ==
    \E i \in 1..Len(es) :
        /\ es[i].matricula_usuario = matricula
        /\ es[i].isbn_livro = isbn
        /\ es[i].status = "DEVOLVIDO"

\* The linear scan for an active loan of the same (user, book) pair.
TemEmprestimoAtivo(es, matricula, isbn) ==
    \E i \in 1..Len(es) :
        /\ es[i].matricula_usuario = matricula
        /\ es[i].isbn_livro = isbn
        /\ es[i].status = "ATIVO"

\* The result of a coordinator call: the exception (or OK), the id of the
\* loan returned, and the three stores and the counter as the call leaves
\* them (an exception raised after a mutation keeps that mutation).
Resultado(erro, id, us, ls, es, cont) ==
    [erro |-> erro, id |-> id, usuarios |-> us, livros |-> ls,
     emprestimos |-> es, contador |-> cont]

\* Mutant: the status compared with is the wrong member.
EstaBloqueado_Inativo(usuario) == usuario.status = "INATIVO"

\* usuario.status == StatusUsuario.BLOQUEADO
EstaBloqueado(usuario) == usuario.status = "BLOQUEADO"

\* Mutant: the duplicate check is left out.
verificacoes_SemDuplicado(us, ls, es, matricula, isbn) ==
    IF obter_usuario(us, matricula) # OK THEN UsuarioNaoEncontradoException
    ELSE IF EstaBloqueado(us[matricula]) THEN UsuarioBloqueadoException
    ELSE IF obter_livro(ls, isbn) # OK THEN LivroNaoEncontradoException
    ELSE IF ~verificar_disponibilidade(ls, isbn) THEN LivroIndisponvelException
    ELSE OK

\* The five checks registrar_emprestimo makes before it writes anything,
\* as the step a caller takes first.
verificacoes(us, ls, es, matricula, isbn) ==
    IF obter_usuario(us, matricula) # OK THEN UsuarioNaoEncontradoException
    ELSE IF EstaBloqueado(us[matricula]) THEN UsuarioBloqueadoException
    ELSE IF obter_livro(ls, isbn) # OK THEN LivroNaoEncontradoException
    ELSE IF ~verificar_disponibilidade(ls, isbn) THEN LivroIndisponvelException
    ELSE IF TemEmprestimoAtivo(es, matricula, isbn)
    THEN EmprestimoJaExisteException
    ELSE OK

\* Mutant: the sequence counter is not advanced.
ProximoContador_Parado(cont) == cont

\* self._contador_emprestimos += 1
ProximoContador(cont) == cont + 1

\* Mutant: the sequence counter is advanced before the checks are made.
registrar_emprestimo_ContaAntes(us, ls, es, cont, agora, matricula, isbn, dias) ==
    LET cont1 == ProximoContador(cont)
    IN  IF obter_usuario(us, matricula) # OK
        THEN Resultado(UsuarioNaoEncontradoException, SemId, us, ls, es, cont1)
        ELSE IF EstaBloqueado(us[matricula])
        THEN Resultado(UsuarioBloqueadoException, SemId, us, ls, es, cont1)
        ELSE IF obter_livro(ls, isbn) # OK
        THEN Resultado(LivroNaoEncontradoException, SemId, us, ls, es, cont1)
        ELSE IF ~verificar_disponibilidade(ls, isbn)
        THEN Resultado(LivroIndisponvelException, SemId, us, ls, es, cont1)
        ELSE IF TemEmprestimoAtivo(es, matricula, isbn)
        THEN Resultado(EmprestimoJaExisteException, SemId, us, ls, es, cont1)
        ELSE LET id == IdEmprestimo(cont1)
                 es1 == dict_set(es, id,
                            Emprestimo(id, matricula, isbn, agora, agora + dias))
                 dec == decrementar_estoque(ls, isbn)
                 inc == incrementar_emprestimos(us, matricula)
             IN  IF dec.erro # OK
                 THEN Resultado(dec.erro, SemId, us, ls, es1, cont1)
                 ELSE IF inc.erro # OK
                 THEN Resultado(inc.erro, SemId, us, dec.livros, es1, cont1)
                 ELSE Resultado(OK, id, inc.usuarios, dec.livros, es1, cont1)

\* Mutant: the catalog checks come before the blocked-user check.
registrar_emprestimo_LivroPrimeiro(us, ls, es, cont, agora, matricula, isbn, dias) ==
    IF obter_usuario(us, matricula) # OK
    THEN Resultado(UsuarioNaoEncontradoException, SemId, us, ls, es, cont)
    ELSE IF obter_livro(ls, isbn) # OK
    THEN Resultado(LivroNaoEncontradoException, SemId, us, ls, es, cont)
    ELSE IF ~verificar_disponibilidade(ls, isbn)
    THEN Resultado(LivroIndisponvelException, SemId, us, ls, es, cont)
    ELSE IF EstaBloqueado(us[matricula])
    THEN Resultado(UsuarioBloqueadoException, SemId, us, ls, es, cont)
    ELSE IF TemEmprestimoAtivo(es, matricula, isbn)
    THEN Resultado(EmprestimoJaExisteException, SemId, us, ls, es, cont)
    ELSE LET cont1 == ProximoContador(cont)
             id == IdEmprestimo(cont1)
             es1 == dict_set(es, id,
                        Emprestimo(id, matricula, isbn, agora, agora + dias))
             dec == decrementar_estoque(ls, isbn)
             inc == incrementar_emprestimos(us, matricula)
         IN  IF dec.erro # OK
             THEN Resultado(dec.erro, SemId, us, ls, es1, cont1)
             ELSE IF inc.erro # OK
             THEN Resultado(inc.erro, SemId, us, dec.livros, es1, cont1)
             ELSE Resultado(OK, id, inc.usuarios, dec.livros, es1, cont1)

registrar_emprestimo(us, ls, es, cont, agora, matricula, isbn, dias) ==
    IF obter_usuario(us, matricula) # OK
    THEN Resultado(UsuarioNaoEncontradoException, SemId, us, ls, es, cont)
    ELSE IF EstaBloqueado(us[matricula])
    THEN Resultado(UsuarioBloqueadoException, SemId, us, ls, es, cont)
    ELSE IF obter_livro(ls, isbn) # OK
    THEN Resultado(LivroNaoEncontradoException, SemId, us, ls, es, cont)
    ELSE IF ~verificar_disponibilidade(ls, isbn)
    THEN Resultado(LivroIndisponvelException, SemId, us, ls, es, cont)
    ELSE IF TemEmprestimoAtivo(es, matricula, isbn)
    THEN Resultado(EmprestimoJaExisteException, SemId, us, ls, es, cont)
    ELSE LET cont1 == ProximoContador(cont)
             id == IdEmprestimo(cont1)
             es1 == dict_set(es, id,
                        Emprestimo(id, matricula, isbn, agora, agora + dias))
             dec == decrementar_estoque(ls, isbn)
             inc == incrementar_emprestimos(us, matricula)
         IN  IF dec.erro # OK
             THEN Resultado(dec.erro, SemId, us, ls, es1, cont1)
             ELSE IF inc.erro # OK
             THEN Resultado(inc.erro, SemId, us, dec.livros, es1, cont1)
             ELSE Resultado(OK, id, inc.usuarios, dec.livros, es1, cont1)

\* Mutant: only an overdue loan counts as not active.
EhAtivo_NaoAtrasado(e) == e.status # "ATRASADO"

\* emprestimo.status == StatusEmprestimo.ATIVO
EhAtivo(e) == e.status = "ATIVO"

\* Mutant: the return timestamp is not set.
Devolver_SemData(e, agora) == [e EXCEPT !.status = "DEVOLVIDO"]

\* The two assignments that close a loan.
Devolver(e, agora) ==
    [e EXCEPT !.data_devolucao_real = Some(agora), !.status = "DEVOLVIDO"]

registrar_devolucao(us, ls, es, cont, agora, id) ==
    IF Posicoes(es, id) = {}
    THEN Resultado(EmprestimoNaoEncontradoException, SemId, us, ls, es, cont)
    ELSE LET i == CHOOSE j \in Posicoes(es, id) : TRUE
             e == es[i]
         IN  IF ~EhAtivo(e)
             THEN Resultado(ValidacaoException, SemId, us, ls, es, cont)
             ELSE LET es1 == [es EXCEPT ![i] = Devolver(e, agora)]
                      inc == incrementar_estoque(ls, e.isbn_livro)
                      dec == decrementar_emprestimos(us, e.matricula_usuario)
                  IN  IF inc.erro # OK
                      THEN Resultado(inc.erro, SemId, us, ls, es1, cont)
                      ELSE IF dec.erro # OK
                      THEN Resultado(dec.erro, SemId, us, inc.livros, es1, cont)
                      ELSE Resultado(OK, id, dec.usuarios, inc.livros, es1, cont)

\* Mutant: an unknown id is not reported.
obter_emprestimo_SemErro(es, id) == OK

obter_emprestimo(es, id) ==
    IF Posicoes(es, id) = {} THEN EmprestimoNaoEncontradoException ELSE OK

listar_emprestimos(es) == es

listar_emprestimos_ativos(es) == SelectSeq(es, EhAtivo)

listar_emprestimos_por_usuario(es, matricula) ==
    LET DoUsuario(e) == e.matricula_usuario = matricula
    IN  SelectSeq(es, DoUsuario)

listar_emprestimos_por_livro(es, isbn) ==
    LET DoLivro(e) == e.isbn_livro = isbn
    IN  SelectSeq(es, DoLivro)

-----------------------------------------------------------------------------
\* ModuloRelatorios.  Each report is a function of the three stores (and of
\* the instant it is asked at); a report is a sequence of records, one per
\* dict of the list the source returns.

TipoUsuario_value(t) ==
    CASE t = "ALUNO" -> "Aluno"
      [] t = "PROFESSOR" -> "Professor"
      [] t = "FUNCIONARIO" -> "Funcionário"

\* datetime.isoformat(): the text of an instant, not the instant.
isoformat(t) == [iso |-> t]

\* contagem[chave] = contagem.get(chave, 0) + 1 for each key in loan order.
\* The dict keeps its keys in the order they were first inserted.
RECURSIVE contar(_)
contar(chaves) ==
    IF chaves = <<>> THEN <<>>
    ELSE LET c == contar(SubSeq(chaves, 1, Len(chaves) - 1))
             k == chaves[Len(chaves)]
             pos == {i \in 1..Len(c) : c[i].chave = k}
         IN  IF pos = {}
             THEN Append(c, [chave |-> k, quantidade |-> 1])
             ELSE LET i == CHOOSE j \in pos : TRUE
                  IN  [c EXCEPT ![i].quantidade = @ + 1]

\* Mutant: the item is put at the end, whatever its count.
Inserir_SemOrdem(s, x) == Append(s, x)

\* The place of one more item in a list already sorted by count
\* descending: after every item whose count is not smaller (the sort is
\* stable, reverse=True included).
Inserir(s, x) ==
    LET p == Cardinality({i \in 1..Len(s) : s[i].quantidade >= x.quantidade})
    IN  SubSeq(s, 1, p) \o <<x>> \o SubSeq(s, p + 1, Len(s))

\* sorted(contagem.items(), key=lambda x: x[1], reverse=True)
RECURSIVE sorted_reverse(_)
sorted_reverse(c) ==
    IF c = <<>> THEN <<>>
    ELSE Inserir(sorted_reverse(SubSeq(c, 1, Len(c) - 1)), c[Len(c)])

\* s[:limite]
Fatia(s, limite) ==
    IF limite >= 0
    THEN SubSeq(s, 1, IF limite < Len(s) THEN limite ELSE Len(s))
    ELSE SubSeq(s, 1, IF Len(s) + limite > 0 THEN Len(s) + limite ELSE 0)

relatorio_livros_mais_emprestados(es, ls, limite) ==
    LET todos == listar_emprestimos(es)
        chaves == [i \in 1..Len(todos) |-> todos[i].isbn_livro]
        livros_ordenados == Fatia(sorted_reverse(contar(chaves)), limite)
        Achado(x) == obter_livro(ls, x.chave) = OK
        achados == SelectSeq(livros_ordenados, Achado)
    IN  [i \in 1..Len(achados) |->
            [isbn |-> achados[i].chave,
             titulo |-> ls[achados[i].chave].titulo,
             autor |-> ls[achados[i].chave].autor,
             quantidade_emprestimos |-> achados[i].quantidade]]

\* Mutant: the users that are gone are dropped before the list is cut.
relatorio_usuarios_mais_ativos_FiltraAntes(es, us, limite) ==
    LET todos == listar_emprestimos(es)
        chaves == [i \in 1..Len(todos) |-> todos[i].matricula_usuario]
        Achado(x) == obter_usuario(us, x.chave) = OK
        achados == Fatia(SelectSeq(sorted_reverse(contar(chaves)), Achado), limite)
    IN  [i \in 1..Len(achados) |->
            [matricula |-> achados[i].chave,
             nome |-> us[achados[i].chave].nome,
             tipo |-> TipoUsuario_value(us[achados[i].chave].tipo),
             quantidade_emprestimos |-> achados[i].quantidade]]

relatorio_usuarios_mais_ativos(es, us, limite) ==
    LET todos == listar_emprestimos(es)
        chaves == [i \in 1..Len(todos) |-> todos[i].matricula_usuario]
        usuarios_ordenados == Fatia(sorted_reverse(contar(chaves)), limite)
        Achado(x) == obter_usuario(us, x.chave) = OK
        achados == SelectSeq(usuarios_ordenados, Achado)
    IN  [i \in 1..Len(achados) |->
            [matricula |-> achados[i].chave,
             nome |-> us[achados[i].chave].nome,
             tipo |-> TipoUsuario_value(us[achados[i].chave].tipo),
             quantidade_emprestimos |-> achados[i].quantidade]]

\* Mutant: the book is not looked up.
relatorio_emprestimos_ativos_SemLivro(es, us, ls, agora) ==
    LET Achado(e) == obter_usuario(us, e.matricula_usuario) = OK
        achados == SelectSeq(listar_emprestimos_ativos(es), Achado)
    IN  [i \in 1..Len(achados) |->
            [id_emprestimo |-> achados[i].id_emprestimo,
             usuario |-> us[achados[i].matricula_usuario].nome,
             livro |-> TituloPadrao,
             data_emprestimo |-> isoformat(achados[i].data_emprestimo),
             data_devolucao_prevista |->
                 isoformat(achados[i].data_devolucao_prevista),
             dias_restantes |-> achados[i].data_devolucao_prevista - agora]]

\* An active loan whose user or book lookup raises is skipped by the bare
\* except.
relatorio_emprestimos_ativos(es, us, ls, agora) ==
    LET Achado(e) == /\ obter_usuario(us, e.matricula_usuario) = OK
                     /\ obter_livro(ls, e.isbn_livro) = OK
        achados == SelectSeq(listar_emprestimos_ativos(es), Achado)
    IN  [i \in 1..Len(achados) |->
            [id_emprestimo |-> achados[i].id_emprestimo,
             usuario |-> us[achados[i].matricula_usuario].nome,
             livro |-> ls[achados[i].isbn_livro].titulo,
             data_emprestimo |-> isoformat(achados[i].data_emprestimo),
             data_devolucao_prevista |->
                 isoformat(achados[i].data_devolucao_prevista),
             dias_restantes |-> achados[i].data_devolucao_prevista - agora]]

\* sum(livro.estoque for livro in livros)
RECURSIVE SomaEstoque(_, _)
SomaEstoque(ls, isbns) ==
    IF isbns = {} THEN 0
    ELSE LET b == CHOOSE x \in isbns : TRUE
         IN  ls[b].estoque + SomaEstoque(ls, isbns \ {b})

\* Mutant: a book counts as unavailable by its status, not by its stock.
relatorio_acervo_PorStatus(ls, agora) ==
    [total_titulos |-> Cardinality(DOMAIN ls),
     total_copias_disponiveis |-> SomaEstoque(ls, DOMAIN ls),
     livros_indisponveis |->
         Cardinality({b \in DOMAIN ls : ls[b].status # "DISPONIVEL"}),
     data_geracao |-> isoformat(agora)]

relatorio_acervo(ls, agora) ==
    [total_titulos |-> Cardinality(DOMAIN ls),
     total_copias_disponiveis |-> SomaEstoque(ls, DOMAIN ls),
     livros_indisponveis |-> Cardinality({b \in DOMAIN ls : ls[b].estoque = 0}),
     data_geracao |-> isoformat(agora)]

relatorio_usuarios(us, agora) ==
    [total_usuarios |-> Cardinality(DOMAIN us),
     usuarios_ativos |->
         Cardinality({m \in DOMAIN us : StatusUsuario_value(us[m].status) = "Ativo"}),
     usuarios_bloqueados |->
         Cardinality({m \in DOMAIN us :
                          StatusUsuario_value(us[m].status) = "Bloqueado"}),
     data_geracao |-> isoformat(agora)]

-----------------------------------------------------------------------------
\* State after construction: empty registries, no loan, counter 0, and no
\* call in progress; calls do not overlap.
Vazio == [k \in {} |-> k]

\* The threads that may be inside registrar_emprestimo.
Chamadores == {"T1", "T2"}

\* A call's position and locals: pc is where the caller stands in
\* registrar_emprestimo.
Chamada(pc, matricula, isbn, id) ==
    [pc |-> pc, matricula |-> matricula, isbn |-> isbn, id |-> id]

Ociosa == Chamada("ocioso", "", "", SemId)

Init ==
    /\ usuarios = Vazio
    /\ livros = Vazio
    /\ emprestimos = <<>>
    /\ contador_emprestimos = 0
    /\ relogio = 0
    /\ estoque_cadastrado = Vazio
    /\ chamadas = [t \in Chamadores |-> Ociosa]
    /\ secao_critica = TRUE

\* Ids a caller may pass: those of the loans the bounds allow, and one more.
IdsEntrada == {IdEmprestimo(n) : n \in 1..(MaxEmprestimos + 1)}
\* Stocks a book is registered with: an invalid one, none, and enough copies
\* for every user of the model to hold one.
EstoquesEntrada == {-1, 0, 1, 2}

\* datetime.now() advances between calls.
Tick ==
    /\ relogio < MaxRelogio
    /\ relogio' = relogio + 1
    /\ UNCHANGED <<estado, estoque_cadastrado, concorrencia>>

\* --- ModuloUsuarios -------------------------------------------------------
foraUsuarios == <<livros, emprestimos, contador_emprestimos, relogio,
                  estoque_cadastrado, concorrencia>>

CadastrarUsuario(matricula, nome, tipo) ==
    /\ usuarios' = cadastrar_usuario(usuarios, matricula, nome, tipo).usuarios
    /\ UNCHANGED foraUsuarios

EditarUsuario(matricula, nome, tipo) ==
    /\ usuarios' = editar_usuario(usuarios, matricula, nome, tipo).usuarios
    /\ UNCHANGED foraUsuarios

RemoverUsuario(matricula) ==
    /\ usuarios' = remover_usuario(usuarios, matricula).usuarios
    /\ UNCHANGED foraUsuarios

BloquearUsuario(matricula) ==
    /\ usuarios' = bloquear_usuario(usuarios, matricula).usuarios
    /\ UNCHANGED foraUsuarios

DesbloquearUsuario(matricula) ==
    /\ usuarios' = desbloquear_usuario(usuarios, matricula).usuarios
    /\ UNCHANGED foraUsuarios

\* The guard caps the counter, which this call alone could raise for ever.
IncrementarEmprestimos(matricula) ==
    LET r == incrementar_emprestimos(usuarios, matricula)
    IN  /\ r.erro = OK =>
               r.usuarios[matricula].emprestimos_ativos <= MaxEmprestimos
        /\ usuarios' = r.usuarios
        /\ UNCHANGED foraUsuarios

DecrementarEmprestimos(matricula) ==
    /\ usuarios' = decrementar_emprestimos(usuarios, matricula).usuarios
    /\ UNCHANGED foraUsuarios

\* --- ModuloCatalogo -------------------------------------------------------
foraLivros == <<usuarios, emprestimos, contador_emprestimos, relogio,
                concorrencia>>

\* estoque_cadastrado remembers the stock each book was registered with.
CadastrarLivro(isbn, titulo, autor, estoque) ==
    LET r == cadastrar_livro(livros, isbn, titulo, autor, estoque)
    IN  /\ livros' = r.livros
        /\ estoque_cadastrado' =
               IF r.erro = OK THEN (isbn :> estoque) @@ estoque_cadastrado
               ELSE estoque_cadastrado
        /\ UNCHANGED foraLivros

RemoverLivro(isbn) ==
    /\ livros' = remover_livro(livros, isbn).livros
    /\ UNCHANGED <<foraLivros, estoque_cadastrado>>

DecrementarEstoque(isbn) ==
    /\ livros' = decrementar_estoque(livros, isbn).livros
    /\ UNCHANGED <<foraLivros, estoque_cadastrado>>

\* The guard caps the stock, which this call alone could raise for ever.
IncrementarEstoque(isbn) ==
    LET r == incrementar_estoque(livros, isbn)
    IN  /\ r.erro = OK => r.livros[isbn].estoque \in EstoquesEntrada
        /\ livros' = r.livros
        /\ UNCHANGED <<foraLivros, estoque_cadastrado>>

AtualizarStatus(isbn, novo_status) ==
    /\ livros' = atualizar_status(livros, isbn, novo_status).livros
    /\ UNCHANGED <<foraLivros, estoque_cadastrado>>

\* --- ModuloEmprestimo -----------------------------------------------------
\* The guard caps the id counter: a call that would take it past
\* MaxEmprestimos is not made.
RegistrarEmprestimo(matricula, isbn, dias) ==
    LET r == registrar_emprestimo(usuarios, livros, emprestimos,
                 contador_emprestimos, relogio, matricula, isbn, dias)
    IN  /\ r.contador <= MaxEmprestimos
        /\ usuarios' = r.usuarios
        /\ livros' = r.livros
        /\ emprestimos' = r.emprestimos
        /\ contador_emprestimos' = r.contador
        /\ UNCHANGED <<relogio, estoque_cadastrado, concorrencia>>

RegistrarDevolucao(id) ==
    LET r == registrar_devolucao(usuarios, livros, emprestimos,
                 contador_emprestimos, relogio, id)
    IN  /\ usuarios' = r.usuarios
        /\ livros' = r.livros
        /\ emprestimos' = r.emprestimos
        /\ contador_emprestimos' = r.contador
        /\ UNCHANGED <<relogio, estoque_cadastrado, concorrencia>>

\* A query: it returns the loan or raises, and writes nothing.
ObterEmprestimo(id) ==
    /\ obter_emprestimo(emprestimos, id) \in {OK, EmprestimoNaoEncontradoException}
    /\ UNCHANGED vars

-----------------------------------------------------------------------------
\* The coordinator over registries that only grow: users and books are
\* registered, users are blocked and unblocked, nothing is removed and the
\* registries' counters and stocks are touched by the coordinator alone.
NextEmprestimos ==
    \/ Tick
    \/ \E m \in Matriculas : CadastrarUsuario(m, NomePadrao, "aluno")
    \/ \E m \in Matriculas : BloquearUsuario(m)
    \/ \E m \in Matriculas : DesbloquearUsuario(m)
    \/ \E b \in ISBNs, n \in EstoquesEntrada :
           CadastrarLivro(b, TituloPadrao, AutorPadrao, n)
    \/ \E m \in Matriculas, b \in ISBNs : RegistrarEmprestimo(m, b, DiasPadrao)
    \/ \E id \in IdsEntrada : RegistrarDevolucao(id)
    \/ \E id \in IdsEntrada : ObterEmprestimo(id)

SpecEmprestimos == Init /\ [][NextEmprestimos]_vars

\* The stocks books are registered with where books are also removed.
EstoquesRegistros == {0, 1}

\* The coordinator's operations interleaved with the registrations and
\* removals of the two registries.
NextRegistros ==
    \/ \E m \in Matriculas : CadastrarUsuario(m, NomePadrao, "aluno")
    \/ \E m \in Matriculas : RemoverUsuario(m)
    \/ \E m \in Matriculas : BloquearUsuario(m)
    \/ \E m \in Matriculas : DesbloquearUsuario(m)
    \/ \E b \in ISBNs, n \in EstoquesRegistros :
           CadastrarLivro(b, TituloPadrao, AutorPadrao, n)
    \/ \E b \in ISBNs : RemoverLivro(b)
    \/ \E m \in Matriculas, b \in ISBNs : RegistrarEmprestimo(m, b, DiasPadrao)
    \/ \E id \in IdsEntrada : RegistrarDevolucao(id)

SpecRegistros == Init /\ [][NextRegistros]_vars

\* --- ModuloRelatorios and the coordinator's list queries -------------------
\* The loans made where reports are asked for: enough for two books (or two
\* users) to differ in their number of loans.
MaxHistorico == 3

RegistrarEmprestimoHistorico(matricula, isbn, dias) ==
    LET r == registrar_emprestimo(usuarios, livros, emprestimos,
                 contador_emprestimos, relogio, matricula, isbn, dias)
    IN  /\ r.contador <= MaxHistorico
        /\ usuarios' = r.usuarios
        /\ livros' = r.livros
        /\ emprestimos' = r.emprestimos
        /\ contador_emprestimos' = r.contador
        /\ UNCHANGED <<relogio, estoque_cadastrado, concorrencia>>

\* limite as it is passed to the two rankings; 10 is its default.
LimitesEntrada == {0, 1, 2, 10}

\* The reports and the list queries build their result from the stores and
\* assign to nothing.
RelatorioLivrosMaisEmprestados(limite) ==
    /\ UNCHANGED vars
    /\ Len(relatorio_livros_mais_emprestados(emprestimos, livros, limite))
           <= Len(emprestimos)

RelatorioUsuariosMaisAtivos(limite) ==
    /\ UNCHANGED vars
    /\ Len(relatorio_usuarios_mais_ativos(emprestimos, usuarios, limite))
           <= Len(emprestimos)

RelatorioEmprestimosAtivos ==
    /\ UNCHANGED vars
    /\ Len(relatorio_emprestimos_ativos(emprestimos, usuarios, livros, relogio))
           <= Len(emprestimos)

\* Mutant: the report empties the loan collection it has listed.
RelatorioAcervo_Apaga ==
    /\ relatorio_acervo(livros, relogio).total_titulos >= 0
    /\ emprestimos' = <<>>
    /\ UNCHANGED <<usuarios, livros, contador_emprestimos, relogio,
                   estoque_cadastrado, concorrencia>>

RelatorioAcervo ==
    /\ UNCHANGED vars
    /\ relatorio_acervo(livros, relogio).total_titulos >= 0

RelatorioUsuarios ==
    /\ UNCHANGED vars
    /\ relatorio_usuarios(usuarios, relogio).total_usuarios >= 0

ListarEmprestimos ==
    /\ UNCHANGED vars
    /\ Len(listar_emprestimos(emprestimos)) >= 0

ListarEmprestimosAtivos ==
    /\ UNCHANGED vars
    /\ Len(listar_emprestimos_ativos(emprestimos)) >= 0

ListarEmprestimosPorUsuario(matricula) ==
    /\ UNCHANGED vars
    /\ Len(listar_emprestimos_por_usuario(emprestimos, matricula)) >= 0

ListarEmprestimosPorLivro(isbn) ==
    /\ UNCHANGED vars
    /\ Len(listar_emprestimos_por_livro(emprestimos, isbn)) >= 0

\* The stocks books are registered with where reports are asked for.
EstoquesRelatorios == {2}

\* Loans are made and returned, users come and go, and the reports and
\* list queries are asked for in between.
NextRelatorios ==
    \/ \E m \in Matriculas : CadastrarUsuario(m, NomePadrao, "aluno")
    \/ \E m \in Matriculas : RemoverUsuario(m)
    \/ \E b \in ISBNs, n \in EstoquesRelatorios :
           CadastrarLivro(b, TituloPadrao, AutorPadrao, n)
    \/ \E m \in Matriculas, b \in ISBNs :
           RegistrarEmprestimoHistorico(m, b, DiasPadrao)
    \/ \E id \in IdsEntrada : RegistrarDevolucao(id)
    \/ \E n \in LimitesEntrada : RelatorioLivrosMaisEmprestados(n)
    \/ \E n \in LimitesEntrada : RelatorioUsuariosMaisAtivos(n)
    \/ RelatorioEmprestimosAtivos
    \/ RelatorioAcervo
    \/ RelatorioUsuarios
    \/ ListarEmprestimos
    \/ ListarEmprestimosAtivos
    \/ \E m \in Matriculas : ListarEmprestimosPorUsuario(m)
    \/ \E b \in ISBNs : ListarEmprestimosPorLivro(b)
    \/ \E id \in IdsEntrada : ObterEmprestimo(id)

SpecRelatorios == Init /\ [][NextRelatorios]_vars

\* Loans are made and returned, books come and go, and the two reports
\* that look books up are asked for in between.
NextRelatoriosAcervo ==
    \/ \E m \in Matriculas : CadastrarUsuario(m, NomePadrao, "aluno")
    \/ \E b \in ISBNs, n \in EstoquesRelatorios :
           CadastrarLivro(b, TituloPadrao, AutorPadrao, n)
    \/ \E b \in ISBNs : RemoverLivro(b)
    \/ \E m \in Matriculas, b \in ISBNs :
           RegistrarEmprestimoHistorico(m, b, DiasPadrao)
    \/ \E id \in IdsEntrada : RegistrarDevolucao(id)
    \/ \E n \in LimitesEntrada : RelatorioLivrosMaisEmprestados(n)
    \/ RelatorioEmprestimosAtivos

SpecRelatoriosAcervo == Init /\ [][NextRelatoriosAcervo]_vars

\* The coordinator next to the user registry's own operations, the two
\* that move a user's counter included.
NextContadores ==
    \/ \E m \in Matriculas : CadastrarUsuario(m, NomePadrao, "aluno")
    \/ \E m \in Matriculas : RemoverUsuario(m)
    \/ \E m \in Matriculas : BloquearUsuario(m)
    \/ \E m \in Matriculas : DesbloquearUsuario(m)
    \/ \E m \in Matriculas : IncrementarEmprestimos(m)
    \/ \E m \in Matriculas : DecrementarEmprestimos(m)
    \/ \E b \in ISBNs, n \in EstoquesRegistros :
           CadastrarLivro(b, TituloPadrao, AutorPadrao, n)
    \/ \E m \in Matriculas, b \in ISBNs : RegistrarEmprestimo(m, b, DiasPadrao)
    \/ \E id \in IdsEntrada : RegistrarDevolucao(id)

SpecContadores == Init /\ [][NextContadores]_vars

\* The coordinator next to the catalog's own stock operations.
NextEstoque ==
    \/ \E m \in Matriculas : CadastrarUsuario(m, NomePadrao, "aluno")
    \/ \E b \in ISBNs, n \in EstoquesEntrada :
           CadastrarLivro(b, TituloPadrao, AutorPadrao, n)
    \/ \E b \in ISBNs : DecrementarEstoque(b)
    \/ \E b \in ISBNs : IncrementarEstoque(b)
    \/ \E m \in Matriculas, b \in ISBNs : RegistrarEmprestimo(m, b, DiasPadrao)
    \/ \E id \in IdsEntrada : RegistrarDevolucao(id)

SpecEstoque == Init /\ [][NextEstoque]_vars

\* --- ModuloUsuarios on its own ----------------------------------------------
\* Names by length: empty, one short of the minimum, the minimum, the
\* maximum and one past it.
TamanhosEntrada == {0, NomeMin - 1, NomeMin, NomeMax, NomeMax + 1}

NomeDeTamanho(n) == [i \in 1..n |-> "a"]

NomesEntrada == {NomeDeTamanho(n) : n \in TamanhosEntrada}

\* tipo as the caller writes it: two member names in lower case and a word
\* that names no member.
TiposEntrada == {"aluno", "professor", "gerente"}

Opcional(S) == {None} \cup {Some(v) : v \in S}

\* Every public operation of the user registry, and the report that reads
\* it.
NextUsuarios ==
    \/ \E m \in Matriculas, n \in NomesEntrada, t \in TiposEntrada :
           CadastrarUsuario(m, n, t)
    \/ \E m \in Matriculas, n \in Opcional(NomesEntrada),
          t \in Opcional(TiposEntrada) : EditarUsuario(m, n, t)
    \/ \E m \in Matriculas : RemoverUsuario(m)
    \/ \E m \in Matriculas : BloquearUsuario(m)
    \/ \E m \in Matriculas : DesbloquearUsuario(m)
    \/ \E m \in Matriculas : IncrementarEmprestimos(m)
    \/ \E m \in Matriculas : DecrementarEmprestimos(m)
    \/ RelatorioUsuarios

SpecUsuarios == Init /\ [][NextUsuarios]_vars

\* --- registrar_emprestimo step by step, one call per caller ----------------
\* No other call is in progress; with a critical section a step that
\* starts an operation waits for this.
Livre(t) ==
    secao_critica => \A u \in Chamadores \ {t} : chamadas[u].pc = "ocioso"

TodosOciosos == \A t \in Chamadores : chamadas[t].pc = "ocioso"

\* The checks: a call that fails one raises and is over.
Verificar(t, matricula, isbn) ==
    /\ chamadas[t].pc = "ocioso"
    /\ Livre(t)
    /\ chamadas' =
           IF verificacoes(usuarios, livros, emprestimos, matricula, isbn) = OK
           THEN [chamadas EXCEPT ![t] = Chamada("verificado", matricula, isbn, SemId)]
           ELSE chamadas
    /\ UNCHANGED <<estado, relogio, estoque_cadastrado, secao_critica>>

\* The counter is advanced, the id formatted and the loan inserted.
InserirEmprestimo(t) ==
    LET c == chamadas[t]
        cont1 == ProximoContador(contador_emprestimos)
        id == IdEmprestimo(cont1)
    IN  /\ c.pc = "verificado"
        /\ cont1 <= MaxEmprestimos
        /\ contador_emprestimos' = cont1
        /\ emprestimos' = dict_set(emprestimos, id,
               Emprestimo(id, c.matricula, c.isbn, relogio, relogio + DiasPadrao))
        /\ chamadas' = [chamadas EXCEPT ![t] = Chamada("inserido", c.matricula, c.isbn, id)]
        /\ UNCHANGED <<usuarios, livros, relogio, estoque_cadastrado, secao_critica>>

\* decrementar_estoque: if it raises, the call is over with the loan in.
DecrementarEstoqueDaChamada(t) ==
    LET c == chamadas[t]
        dec == decrementar_estoque(livros, c.isbn)
    IN  /\ c.pc = "inserido"
        /\ livros' = dec.livros
        /\ chamadas' = [chamadas EXCEPT ![t] =
               IF dec.erro = OK
               THEN Chamada("decrementado", c.matricula, c.isbn, c.id)
               ELSE Ociosa]
        /\ UNCHANGED <<usuarios, emprestimos, contador_emprestimos, relogio,
                       estoque_cadastrado, secao_critica>>

\* incrementar_emprestimos, and the call returns the id.
IncrementarContadorDaChamada(t) ==
    LET c == chamadas[t]
        inc == incrementar_emprestimos(usuarios, c.matricula)
    IN  /\ c.pc = "decrementado"
        /\ usuarios' = inc.usuarios
        /\ chamadas' = [chamadas EXCEPT ![t] = Ociosa]
        /\ UNCHANGED <<livros, emprestimos, contador_emprestimos, relogio,
                       estoque_cadastrado, secao_critica>>

\* A run either keeps every call inside a critical section or lets the
\* steps of two calls interleave.
InitConcorrente ==
    /\ usuarios = Vazio
    /\ livros = Vazio
    /\ emprestimos = <<>>
    /\ contador_emprestimos = 0
    /\ relogio = 0
    /\ estoque_cadastrado = Vazio
    /\ chamadas = [t \in Chamadores |-> Ociosa]
    /\ secao_critica \in BOOLEAN

NextConcorrente ==
    \/ \E t \in Chamadores, m \in Matriculas, b \in ISBNs : Verificar(t, m, b)
    \/ \E t \in Chamadores : InserirEmprestimo(t)
    \/ \E t \in Chamadores : DecrementarEstoqueDaChamada(t)
    \/ \E t \in Chamadores : IncrementarContadorDaChamada(t)
    \/ /\ secao_critica => TodosOciosos
       /\ \/ \E m \in Matriculas : CadastrarUsuario(m, NomePadrao, "aluno")
          \/ \E b \in ISBNs, n \in EstoquesRelatorios :
                 CadastrarLivro(b, TituloPadrao, AutorPadrao, n)
          \/ \E id \in IdsEntrada : RegistrarDevolucao(id)

SpecConcorrente == InitConcorrente /\ [][NextConcorrente]_vars

\* Every public operation of the three modules, in any order.
Next ==
    \/ NextEmprestimos
    \/ \E m \in Matriculas : RemoverUsuario(m)
    \/ \E m \in Matriculas : IncrementarEmprestimos(m)
    \/ \E m \in Matriculas : DecrementarEmprestimos(m)
    \/ \E b \in ISBNs : RemoverLivro(b)
    \/ \E b \in ISBNs : DecrementarEstoque(b)
    \/ \E b \in ISBNs : IncrementarEstoque(b)

Spec == Init /\ [][Next]_vars

-----------------------------------------------------------------------------
\* Counting, for the properties.
AtivosDoUsuario(es, m) ==
    Cardinality({i \in 1..Len(es) :
                    es[i].matricula_usuario = m /\ es[i].status = "ATIVO"})

AtivosDoLivro(es, b) ==
    Cardinality({i \in 1..Len(es) :
                    es[i].isbn_livro = b /\ es[i].status = "ATIVO"})

AtivosDoPar(es, m, b) ==
    Cardinality({i \in 1..Len(es) :
                    /\ es[i].matricula_usuario = m
                    /\ es[i].isbn_livro = b
                    /\ es[i].status = "ATIVO"})

-----------------------------------------------------------------------------
\* C1: after every call of the coordinator over registries that only grow,
\* each registered user's emprestimos_ativos equals the number of that
\* user's loans with status active.
C1_ContadorEspelhaAtivos ==
    \A m \in DOMAIN usuarios :
        usuarios[m].emprestimos_ativos = AtivosDoUsuario(emprestimos, m)

\* A user holds an active loan after another loan of theirs was returned.
C1_Witness ==
    \E m \in DOMAIN usuarios :
        /\ usuarios[m].emprestimos_ativos = 1
        /\ \E i \in 1..Len(emprestimos) :
               /\ emprestimos[i].matricula_usuario = m
               /\ emprestimos[i].status = "DEVOLVIDO"

\* C2: conservation: each registered book's stock plus the number of active
\* loans of that book equals the stock it was registered with.
C2_ConservacaoEstoque ==
    \A b \in DOMAIN livros :
        livros[b].estoque + AtivosDoLivro(emprestimos, b) = estoque_cadastrado[b]

\* A book with a copy lent out and another loan of it already returned.
C2_Witness ==
    \E b \in DOMAIN livros :
        /\ AtivosDoLivro(emprestimos, b) = 1
        /\ livros[b].estoque < estoque_cadastrado[b]
        /\ \E i \in 1..Len(emprestimos) :
               /\ emprestimos[i].isbn_livro = b
               /\ emprestimos[i].status = "DEVOLVIDO"

-----------------------------------------------------------------------------
\* The coordinator's calls applied to the current state, as a caller would
\* make them now (create_loan with the default number of days).
Criar(m, b) ==
    registrar_emprestimo(usuarios, livros, emprestimos, contador_emprestimos,
                         relogio, m, b, DiasPadrao)

Devolucao(id) ==
    registrar_devolucao(usuarios, livros, emprestimos, contador_emprestimos,
                        relogio, id)

\* The same calls made at instant t on the state a previous call r left.
CriarApos(r, t, m, b) ==
    registrar_emprestimo(r.usuarios, r.livros, r.emprestimos, r.contador,
                         t, m, b, DiasPadrao)

DevolucaoApos(r, t, id) ==
    registrar_devolucao(r.usuarios, r.livros, r.emprestimos, r.contador, t, id)

\* The call r left the three stores and the counter as they are now.
NadaMudou(r) ==
    /\ r.usuarios = usuarios
    /\ r.livros = livros
    /\ r.emprestimos = emprestimos
    /\ r.contador = contador_emprestimos

Futuro == relogio..MaxRelogio

\* C3 (as stated): whenever create_loan(m, b) succeeds, the same call made
\* again right after it fails with EmprestimoJaExisteException and exactly
\* one active loan of the pair exists afterwards.
C3_Original ==
    \A m \in Matriculas, b \in ISBNs :
        LET r1 == Criar(m, b)
        IN  r1.erro = OK =>
                \A t \in Futuro :
                    LET r2 == CriarApos(r1, t, m, b)
                    IN  /\ r2.erro = EmprestimoJaExisteException
                        /\ AtivosDoPar(r2.emprestimos, m, b) = 1

\* C3 (amended): while an active loan of (m, b) exists, create_loan(m, b)
\* fails with the error of the first precondition violated: UserBlocked if
\* the user was blocked meanwhile, BookUnavailable if no copy is left (the
\* first loan took the last one), LoanAlreadyExists otherwise; it changes
\* nothing, and exactly one active loan of the pair exists afterwards.
C3_SegundoEmprestimoFalha ==
    \A m \in Matriculas, b \in ISBNs :
        AtivosDoPar(emprestimos, m, b) >= 1 =>
            LET r == Criar(m, b)
            IN  /\ r.erro = IF usuarios[m].status = "BLOQUEADO"
                            THEN UsuarioBloqueadoException
                            ELSE IF livros[b].estoque = 0
                            THEN LivroIndisponvelException
                            ELSE EmprestimoJaExisteException
                /\ NadaMudou(r)
                /\ AtivosDoPar(r.emprestimos, m, b) = 1

\* A pair with an active loan whose second create_loan reaches the
\* duplicate check: the user is not blocked and a copy is left.
C3_Witness ==
    \E m \in DOMAIN usuarios, b \in DOMAIN livros :
        /\ AtivosDoPar(emprestimos, m, b) = 1
        /\ usuarios[m].status = "ATIVO"
        /\ livros[b].estoque > 0
        /\ Criar(m, b).erro = EmprestimoJaExisteException

\* C4: create_loan reports the error of the first violated precondition in
\* the order: user exists, user not blocked, book exists, stock > 0, no
\* active loan of the pair; with none violated it succeeds.
PrimeiraViolacao(m, b) ==
    IF m \notin DOMAIN usuarios THEN UsuarioNaoEncontradoException
    ELSE IF usuarios[m].status = "BLOQUEADO" THEN UsuarioBloqueadoException
    ELSE IF b \notin DOMAIN livros THEN LivroNaoEncontradoException
    ELSE IF livros[b].estoque <= 0 THEN LivroIndisponvelException
    ELSE IF AtivosDoPar(emprestimos, m, b) > 0 THEN EmprestimoJaExisteException
    ELSE OK

C4_OrdemDasVerificacoes ==
    \A m \in Matriculas, b \in ISBNs :
        Criar(m, b).erro = PrimeiraViolacao(m, b)

\* Several preconditions are violated at once: a blocked user and an
\* unregistered user, a book out of stock and an unregistered book.
C4_Witness ==
    /\ \E m \in DOMAIN usuarios : usuarios[m].status = "BLOQUEADO"
    /\ \E m \in Matriculas : m \notin DOMAIN usuarios
    /\ \E b \in DOMAIN livros : livros[b].estoque = 0
    /\ \E b \in ISBNs : b \notin DOMAIN livros

\* C5: create_loan for a blocked user fails with UsuarioBloqueadoException
\* whatever the book (registered or not, in stock or not) and changes no
\* stock, no counter and no loan.
C5_BloqueadoNaoEmpresta ==
    \A m \in DOMAIN usuarios :
        usuarios[m].status = "BLOQUEADO" =>
            \A b \in ISBNs :
                LET r == Criar(m, b)
                IN  r.erro = UsuarioBloqueadoException /\ NadaMudou(r)

\* A blocked user and a book they could borrow if they were not blocked,
\* with loans already made.
C5_Witness ==
    \E m \in DOMAIN usuarios, b \in DOMAIN livros :
        /\ usuarios[m].status = "BLOQUEADO"
        /\ livros[b].estoque > 0
        /\ AtivosDoPar(emprestimos, m, b) = 0
        /\ Len(emprestimos) > 0
        /\ \E b2 \in ISBNs : b2 \notin DOMAIN livros

\* C6: create_loan by a registered, non-blocked user for a registered book
\* with stock 0 fails with LivroIndisponvelException, inserts no loan and
\* leaves the stock at 0.
C6_EstoqueZeroNaoEmpresta ==
    \A m \in DOMAIN usuarios, b \in DOMAIN livros :
        (usuarios[m].status # "BLOQUEADO" /\ livros[b].estoque = 0) =>
            LET r == Criar(m, b)
            IN  /\ r.erro = LivroIndisponvelException
                /\ r.emprestimos = emprestimos
                /\ r.livros[b].estoque = 0
                /\ NadaMudou(r)

\* The last copy of a book is lent out and another user, not blocked and
\* without a loan of it, may ask for it.
C6_Witness ==
    \E m \in DOMAIN usuarios, b \in DOMAIN livros :
        /\ usuarios[m].status = "ATIVO"
        /\ livros[b].estoque = 0
        /\ estoque_cadastrado[b] > 0
        /\ AtivosDoPar(emprestimos, m, b) = 0

\* C7: return_loan on a loan already returned fails with ValidacaoException
\* and changes nothing: no second stock increment, no second counter
\* decrement, status and return timestamp as the first return set them.
C7_DevolucaoDuplaFalha ==
    \A i \in 1..Len(emprestimos) :
        emprestimos[i].status = "DEVOLVIDO" =>
            LET r == Devolucao(emprestimos[i].id_emprestimo)
            IN  /\ r.erro = ValidacaoException
                /\ r.emprestimos[i].status = "DEVOLVIDO"
                /\ r.emprestimos[i].data_devolucao_real =
                       emprestimos[i].data_devolucao_real
                /\ NadaMudou(r)

\* A returned loan, with the clock past the instant of its return, while
\* its user holds another loan (so a second decrement would show).
C7_Witness ==
    \E i \in 1..Len(emprestimos) :
        /\ emprestimos[i].status = "DEVOLVIDO"
        /\ emprestimos[i].data_devolucao_real # None
        /\ emprestimos[i].data_devolucao_real[1] < relogio
        /\ usuarios[emprestimos[i].matricula_usuario].emprestimos_ativos > 0

\* C8: return_loan and fetch-by-id with an id that is not in the collection
\* fail with EmprestimoNaoEncontradoException and change nothing.
IdsPedidos == IdsEntrada \cup {SemId, <<"E", "M", "P", "-", "1">>}

C8_IdDesconhecido ==
    \A id \in IdsPedidos :
        (\A i \in 1..Len(emprestimos) : emprestimos[i].id_emprestimo # id) =>
            LET r == Devolucao(id)
            IN  /\ r.erro = EmprestimoNaoEncontradoException
                /\ NadaMudou(r)
                /\ obter_emprestimo(emprestimos, id) =
                       EmprestimoNaoEncontradoException

\* Loans exist, one of them active, and some well-formed id is unknown.
C8_Witness ==
    /\ \E i \in 1..Len(emprestimos) : emprestimos[i].status = "ATIVO"
    /\ \E id \in IdsEntrada :
           \A i \in 1..Len(emprestimos) : emprestimos[i].id_emprestimo # id

\* C9: a successful create_loan(m, b) takes exactly 1 from stock(b) and adds
\* exactly 1 to the counter of m; a successful return_loan of a loan gives
\* exactly 1 back to its book's stock and takes exactly 1 from its user's
\* counter; nothing else in the registries changes in either step, and a
\* return right after the create restores both registries.
C9_EmprestimoEDevolucao ==
    /\ \A m \in Matriculas, b \in ISBNs :
           LET r1 == Criar(m, b)
           IN  r1.erro = OK =>
                   /\ r1.livros = [livros EXCEPT ![b].estoque = @ - 1]
                   /\ r1.usuarios =
                          [usuarios EXCEPT ![m].emprestimos_ativos = @ + 1]
                   /\ \A t \in Futuro :
                          LET r2 == DevolucaoApos(r1, t, r1.id)
                          IN  /\ r2.erro = OK
                              /\ r2.livros = livros
                              /\ r2.usuarios = usuarios
    /\ \A i \in 1..Len(emprestimos) :
           LET e == emprestimos[i]
               r == Devolucao(e.id_emprestimo)
           IN  r.erro = OK =>
                   /\ r.livros = [livros EXCEPT ![e.isbn_livro].estoque = @ + 1]
                   /\ r.usuarios = [usuarios EXCEPT
                          ![e.matricula_usuario].emprestimos_ativos = @ - 1]
                   /\ r.usuarios[e.matricula_usuario].emprestimos_ativos >= 0

\* A loan was created and returned: its book is back at the registered
\* stock and its user's counter at 0, with another user and another book
\* registered.
C9_Witness ==
    \E i \in 1..Len(emprestimos) :
        LET e == emprestimos[i]
        IN  /\ e.status = "DEVOLVIDO"
            /\ livros[e.isbn_livro].estoque = estoque_cadastrado[e.isbn_livro]
            /\ usuarios[e.matricula_usuario].emprestimos_ativos = 0
            /\ Cardinality(DOMAIN usuarios) = 2
            /\ Cardinality(DOMAIN livros) = 2

\* C10: loan lifecycle.  A loan enters the collection active and without a
\* return timestamp; a step changes a loan's status only from active to
\* returned, only as return_loan of that loan, setting the return timestamp
\* to the current instant; a returned loan stays returned with its
\* timestamp; no loan is overdue; no loan leaves the collection and no id
\* changes.
C10_CicloDeVida ==
    [][ /\ Len(emprestimos') >= Len(emprestimos)
        /\ \A i \in 1..Len(emprestimos) :
               LET e == emprestimos[i]
                   f == emprestimos'[i]
               IN  /\ f.id_emprestimo = e.id_emprestimo
                   /\ \/ /\ f.status = e.status
                         /\ f.data_devolucao_real = e.data_devolucao_real
                      \/ /\ e.status = "ATIVO"
                         /\ f.status = "DEVOLVIDO"
                         /\ f.data_devolucao_real = Some(relogio)
                         /\ RegistrarDevolucao(e.id_emprestimo)
        /\ \A i \in (Len(emprestimos) + 1)..Len(emprestimos') :
               /\ emprestimos'[i].status = "ATIVO"
               /\ emprestimos'[i].data_devolucao_real = None
        /\ \A i \in 1..Len(emprestimos') :
               /\ emprestimos'[i].status # "ATRASADO"
               /\ emprestimos'[i].status = "ATIVO" <=>
                      emprestimos'[i].data_devolucao_real = None
      ]_vars

\* A returned loan carrying its timestamp next to a loan still active.
C10_Witness ==
    /\ \E i \in 1..Len(emprestimos) :
           /\ emprestimos[i].status = "DEVOLVIDO"
           /\ emprestimos[i].data_devolucao_real # None
    /\ \E i \in 1..Len(emprestimos) : emprestimos[i].status = "ATIVO"


-----------------------------------------------------------------------------
\* The sequence number an id was formatted from.
ValorDigito(c) == CHOOSE d \in 0..9 : Digito(d) = c

RECURSIVE ValorDecimal(_)
ValorDecimal(ds) ==
    IF ds = <<>> THEN 0
    ELSE 10 * ValorDecimal(SubSeq(ds, 1, Len(ds) - 1)) + ValorDigito(ds[Len(ds)])

NumeroDoId(id) == ValorDecimal(SubSeq(id, 5, Len(id)))

\* C11: the k-th loan created carries sequence number k, so the ids are
\* strictly increasing in creation order and pairwise distinct, and the
\* counter equals the number of loans; a successful create_loan advances
\* the counter by exactly one, appends one loan under the next id and
\* keeps every earlier loan under its id; a failing create_loan and any
\* return_loan leave the counter and the ids as they are.
C11_IdsUnicosECrescentes ==
    /\ contador_emprestimos = Len(emprestimos)
    /\ \A k \in 1..Len(emprestimos) :
           /\ emprestimos[k].id_emprestimo = IdEmprestimo(k)
           /\ NumeroDoId(emprestimos[k].id_emprestimo) = k
    /\ \A i, j \in 1..Len(emprestimos) :
           i < j => /\ emprestimos[i].id_emprestimo # emprestimos[j].id_emprestimo
                    /\ NumeroDoId(emprestimos[i].id_emprestimo)
                           < NumeroDoId(emprestimos[j].id_emprestimo)
    /\ \A m \in Matriculas, b \in ISBNs :
           LET r == Criar(m, b)
           IN  IF r.erro = OK
               THEN /\ r.contador = contador_emprestimos + 1
                    /\ r.id = IdEmprestimo(contador_emprestimos + 1)
                    /\ Len(r.emprestimos) = Len(emprestimos) + 1
                    /\ r.emprestimos[Len(r.emprestimos)].id_emprestimo = r.id
                    /\ SubSeq(r.emprestimos, 1, Len(emprestimos)) = emprestimos
               ELSE /\ r.contador = contador_emprestimos
                    /\ r.emprestimos = emprestimos
    /\ \A id \in IdsPedidos :
           LET r == Devolucao(id)
           IN  /\ r.contador = contador_emprestimos
               /\ Len(r.emprestimos) = Len(emprestimos)
               /\ \A k \in 1..Len(emprestimos) :
                      r.emprestimos[k].id_emprestimo = emprestimos[k].id_emprestimo

\* Two loans were created around a return, and both a further create_loan
\* that succeeds and one that fails are possible.
C11_Witness ==
    /\ Len(emprestimos) = 2
    /\ emprestimos[1].status = "DEVOLVIDO"
    /\ emprestimos[2].status = "ATIVO"
    /\ emprestimos[2].data_emprestimo > emprestimos[1].data_devolucao_real[1]
    /\ \E m \in Matriculas, b \in ISBNs : Criar(m, b).erro = OK
    /\ \E m \in Matriculas, b \in ISBNs : Criar(m, b).erro # OK

-----------------------------------------------------------------------------
\* C12: in every state reachable by create_loan, return_loan and the
\* registries' register/remove user, block/unblock user and
\* register/remove book, each registered user's active-loan counter equals
\* the number of that user's loans with status active.
C12_ContadorEmTodoEstado ==
    \A m \in DOMAIN usuarios :
        AtivosDoUsuario(emprestimos, m) = usuarios[m].emprestimos_ativos

\* C13: whenever return_loan raises an error, the loans (status and return
\* timestamp included), the stocks and the counters are as before the call,
\* also when the loan's book is no longer in the catalog.
C13_DevolucaoAtomica ==
    \A id \in IdsPedidos :
        LET r == Devolucao(id)
        IN  r.erro # OK => NadaMudou(r)

-----------------------------------------------------------------------------
\* The reference ranking of the keys of a loan list: by number of loans
\* descending, ties by the position of the key's first loan.
Emprestados(chaves) == {chaves[i] : i \in 1..Len(chaves)}

Ocorrencias(chaves, k) == Cardinality({i \in 1..Len(chaves) : chaves[i] = k})

PrimeiroEmprestimo(chaves, k) ==
    CHOOSE i \in 1..Len(chaves) :
        chaves[i] = k /\ \A j \in 1..(i - 1) : chaves[j] # k

Precede(chaves, a, b) ==
    \/ Ocorrencias(chaves, a) > Ocorrencias(chaves, b)
    \/ /\ Ocorrencias(chaves, a) = Ocorrencias(chaves, b)
       /\ PrimeiroEmprestimo(chaves, a) < PrimeiroEmprestimo(chaves, b)

Posto(chaves, k) ==
    1 + Cardinality({a \in Emprestados(chaves) : Precede(chaves, a, k)})

ISBNsDosEmprestimos == [i \in 1..Len(emprestimos) |-> emprestimos[i].isbn_livro]

MatriculasDosEmprestimos ==
    [i \in 1..Len(emprestimos) |-> emprestimos[i].matricula_usuario]

\* C14: for limite >= 0, most_borrowed_books(limite) lists exactly the
\* books that are among the first `limite` of the reference ranking (loans
\* counted whatever their status) and are still in the catalog, in ranking
\* order, each with its number of loans and the catalog's title and author:
\* counts are non-increasing, there are at most `limite` entries, and a
\* removed book among the first `limite` is not replaced by a lower-ranked
\* one.
C14_LivrosMaisEmprestados ==
    \A limite \in LimitesEntrada :
        LET r == relatorio_livros_mais_emprestados(emprestimos, livros, limite)
            ks == ISBNsDosEmprestimos
            topo == {b \in Emprestados(ks) : Posto(ks, b) <= limite}
        IN  /\ Len(r) <= limite
            /\ {r[i].isbn : i \in 1..Len(r)} = topo \cap DOMAIN livros
            /\ Len(r) = Cardinality(topo \cap DOMAIN livros)
            /\ \A i \in 1..Len(r) :
                   /\ r[i].quantidade_emprestimos = Ocorrencias(ks, r[i].isbn)
                   /\ r[i].titulo = livros[r[i].isbn].titulo
                   /\ r[i].autor = livros[r[i].isbn].autor
            /\ \A i, j \in 1..Len(r) :
                   i < j => /\ Posto(ks, r[i].isbn) < Posto(ks, r[j].isbn)
                            /\ r[i].quantidade_emprestimos
                                   >= r[j].quantidade_emprestimos

\* The book lent first has fewer loans than the other one (one of them
\* returned), so the ranking reverses the order of first loan; the
\* top-ranked book was removed from the catalog and the other one is still
\* there: with limite 1 the report is empty.
C14_Witness ==
    /\ Len(emprestimos) = 3
    /\ \E i \in 1..3 : emprestimos[i].status = "DEVOLVIDO"
    /\ \E a \in ISBNs, b \in DOMAIN livros :
           /\ a \notin DOMAIN livros
           /\ emprestimos[1].isbn_livro = b
           /\ Ocorrencias(ISBNsDosEmprestimos, a) = 2
           /\ Posto(ISBNsDosEmprestimos, a) = 1
           /\ relatorio_livros_mais_emprestados(emprestimos, livros, 1) = <<>>
           /\ Len(relatorio_livros_mais_emprestados(emprestimos, livros, 2)) = 1

\* C15: most_active_users(limite) ranks the users as most_borrowed_books
\* ranks the books, counting every loan whatever its status: it lists
\* exactly the users among the first `limite` of the reference ranking that
\* are still registered, in ranking order, each with its number of loans,
\* name and type label.  A user removed after returning all their loans is
\* absent, the others keep their counts and relative order, and the result
\* is a list in every state (no lookup error escapes).
C15_UsuariosMaisAtivos ==
    \A limite \in LimitesEntrada :
        LET r == relatorio_usuarios_mais_ativos(emprestimos, usuarios, limite)
            ks == MatriculasDosEmprestimos
            topo == {m \in Emprestados(ks) : Posto(ks, m) <= limite}
        IN  /\ DOMAIN r = 1..Len(r)
            /\ Len(r) <= limite
            /\ {r[i].matricula : i \in 1..Len(r)} = topo \cap DOMAIN usuarios
            /\ Len(r) = Cardinality(topo \cap DOMAIN usuarios)
            /\ \A i \in 1..Len(r) :
                   /\ r[i].quantidade_emprestimos
                          = Ocorrencias(ks, r[i].matricula)
                   /\ r[i].nome = usuarios[r[i].matricula].nome
                   /\ r[i].tipo = "Aluno"
            /\ \A i, j \in 1..Len(r) :
                   i < j => /\ Posto(ks, r[i].matricula) < Posto(ks, r[j].matricula)
                            /\ r[i].quantidade_emprestimos
                                   >= r[j].quantidade_emprestimos

\* The user with the most loans returned them all and was removed; the
\* other user, who borrowed first, is still registered: the report lists
\* only the latter, and nothing with limite 1.
C15_Witness ==
    /\ Len(emprestimos) = 3
    /\ \E a \in Matriculas, b \in DOMAIN usuarios :
           /\ a \notin DOMAIN usuarios
           /\ emprestimos[1].matricula_usuario = b
           /\ Ocorrencias(MatriculasDosEmprestimos, a) = 2
           /\ AtivosDoUsuario(emprestimos, a) = 0
           /\ relatorio_usuarios_mais_ativos(emprestimos, usuarios, 1) = <<>>
           /\ Len(relatorio_usuarios_mais_ativos(emprestimos, usuarios, 10)) = 1

\* The positions of the loans the active-loans report has to show.
Elegiveis ==
    {k \in 1..Len(emprestimos) :
        /\ emprestimos[k].status = "ATIVO"
        /\ emprestimos[k].matricula_usuario \in DOMAIN usuarios
        /\ emprestimos[k].isbn_livro \in DOMAIN livros}

PosicaoDoId(id) == CHOOSE k \in 1..Len(emprestimos) : emprestimos[k].id_emprestimo = id

\* C16: active_loans_report() is a list in every state (no lookup error
\* escapes) with exactly one entry for each loan that is active and whose
\* user and book are both registered, in loan insertion order, carrying the
\* user's name, the book's title and the days left; a returned loan and an
\* active loan whose book was removed have no entry.
C16_RelatorioEmprestimosAtivos ==
    LET r == relatorio_emprestimos_ativos(emprestimos, usuarios, livros, relogio)
    IN  /\ DOMAIN r = 1..Len(r)
        /\ Len(r) = Cardinality(Elegiveis)
        /\ \A k \in Elegiveis :
               Cardinality({i \in 1..Len(r) :
                   r[i].id_emprestimo = emprestimos[k].id_emprestimo}) = 1
        /\ \A i \in 1..Len(r) :
               \E k \in Elegiveis :
                   LET e == emprestimos[k]
                   IN  /\ r[i].id_emprestimo = e.id_emprestimo
                       /\ r[i].usuario = usuarios[e.matricula_usuario].nome
                       /\ r[i].livro = livros[e.isbn_livro].titulo
                       /\ r[i].dias_restantes = e.data_devolucao_prevista - relogio
        /\ \A i, j \in 1..Len(r) :
               i < j => PosicaoDoId(r[i].id_emprestimo)
                            < PosicaoDoId(r[j].id_emprestimo)

\* A returned loan, an active loan whose book was removed from the catalog
\* and an active loan with user and book registered: one entry.
C16_Witness ==
    /\ \E k \in 1..Len(emprestimos) : emprestimos[k].status = "DEVOLVIDO"
    /\ \E k \in 1..Len(emprestimos) :
           /\ emprestimos[k].status = "ATIVO"
           /\ emprestimos[k].isbn_livro \notin DOMAIN livros
    /\ Len(relatorio_emprestimos_ativos(emprestimos, usuarios, livros, relogio)) = 1

\* C17: a step of any of the five reports leaves the loan collection, the
\* id counter, every book (stock and status) and every user (counter and
\* status) as they were.
C17_RelatoriosNaoEscrevem ==
    [][(\/ \E n \in LimitesEntrada : RelatorioLivrosMaisEmprestados(n)
        \/ \E n \in LimitesEntrada : RelatorioUsuariosMaisAtivos(n)
        \/ RelatorioEmprestimosAtivos
        \/ RelatorioAcervo
        \/ RelatorioUsuarios)
       => /\ emprestimos' = emprestimos
          /\ contador_emprestimos' = contador_emprestimos
          /\ livros' = livros
          /\ usuarios' = usuarios]_vars

\* Every report has something to show: loans of both statuses, a book out
\* of stock, and entries in the rankings and in the active-loans report.
C17_Witness ==
    /\ \E k \in 1..Len(emprestimos) : emprestimos[k].status = "DEVOLVIDO"
    /\ relatorio_acervo(livros, relogio).livros_indisponveis >= 1
    /\ relatorio_usuarios(usuarios, relogio).usuarios_ativos = 2
    /\ Len(relatorio_emprestimos_ativos(emprestimos, usuarios, livros, relogio)) = 2
    /\ Len(relatorio_livros_mais_emprestados(emprestimos, livros, 10)) = 2
    /\ Len(relatorio_usuarios_mais_ativos(emprestimos, usuarios, 10)) = 2

\* The loans at the positions S of the collection, in creation order.
NaOrdemDeCriacao(S) ==
    [i \in 1..Cardinality(S) |->
        emprestimos[CHOOSE k \in S : Cardinality({j \in S : j < k}) = i - 1]]

\* C18: list-all is every loan ever created, in creation order; list-active
\* is its subsequence of the loans with status active; list-by-user and
\* list-by-book are its subsequences of the loans of that user or book,
\* returned ones included; a step of a query (the four lists and
\* fetch-by-id) changes no state, and no step moves or drops a loan
\* already in the collection.
C18_ListasEmOrdemDeCriacao ==
    /\ [](/\ Len(listar_emprestimos(emprestimos)) = contador_emprestimos
          /\ \A k \in 1..Len(emprestimos) :
                 NumeroDoId(listar_emprestimos(emprestimos)[k].id_emprestimo) = k
          /\ listar_emprestimos(emprestimos)
                 = NaOrdemDeCriacao(1..Len(emprestimos))
          /\ listar_emprestimos_ativos(emprestimos)
                 = NaOrdemDeCriacao({k \in 1..Len(emprestimos) :
                                        emprestimos[k].status = "ATIVO"})
          /\ \A m \in Matriculas :
                 listar_emprestimos_por_usuario(emprestimos, m)
                     = NaOrdemDeCriacao({k \in 1..Len(emprestimos) :
                            emprestimos[k].matricula_usuario = m})
          /\ \A b \in ISBNs :
                 listar_emprestimos_por_livro(emprestimos, b)
                     = NaOrdemDeCriacao({k \in 1..Len(emprestimos) :
                            emprestimos[k].isbn_livro = b}))
    /\ [][/\ Len(emprestimos') >= Len(emprestimos)
          /\ \A k \in 1..Len(emprestimos) :
                 emprestimos'[k].id_emprestimo = emprestimos[k].id_emprestimo
          /\ (\/ ListarEmprestimos
              \/ ListarEmprestimosAtivos
              \/ \E m \in Matriculas : ListarEmprestimosPorUsuario(m)
              \/ \E b \in ISBNs : ListarEmprestimosPorLivro(b)
              \/ \E id \in IdsEntrada : ObterEmprestimo(id))
             => /\ emprestimos' = emprestimos
                /\ contador_emprestimos' = contador_emprestimos
                /\ livros' = livros
                /\ usuarios' = usuarios]_vars

\* Three loans, the second one returned: the active list skips it, and the
\* lists of its user and of its book still hold it next to another loan.
C18_Witness ==
    /\ Len(emprestimos) = 3
    /\ emprestimos[1].status = "ATIVO"
    /\ emprestimos[2].status = "DEVOLVIDO"
    /\ emprestimos[3].status = "ATIVO"
    /\ Len(listar_emprestimos_por_usuario(emprestimos,
                                          emprestimos[2].matricula_usuario)) = 2
    /\ Len(listar_emprestimos_por_livro(emprestimos,
                                        emprestimos[2].isbn_livro)) = 2

-----------------------------------------------------------------------------
\* remove_user refuses a user whose counter is above zero and leaves the
\* registry as it is.
RemocaoRecusada ==
    \A m \in DOMAIN usuarios :
        usuarios[m].emprestimos_ativos > 0 =>
            LET r == remover_usuario(usuarios, m)
            IN  /\ r.erro = UsuarioPossuiEmprestimosAtivosException
                /\ r.usuarios = usuarios

\* Every active loan references a registered user.
AtivosTemUsuario ==
    \A k \in 1..Len(emprestimos) :
        emprestimos[k].status = "ATIVO" =>
            emprestimos[k].matricula_usuario \in DOMAIN usuarios

\* No registered user's counter is below the number of their active loans.
ContadorCobreAtivos ==
    \A m \in DOMAIN usuarios :
        usuarios[m].emprestimos_ativos >= AtivosDoUsuario(emprestimos, m)

\* C19 (as stated): remove_user is refused while the counter is above zero,
\* and in every state reachable by the public operations of the registries
\* and the coordinator every active loan references a registered user.
C19_Original == RemocaoRecusada /\ AtivosTemUsuario

\* C19 (amended): remove_user is refused, with the registry unchanged,
\* while the counter is above zero, so no step removes a user whose counter
\* is above zero; and from a state where no counter is below the user's
\* number of active loans and every active loan has its user registered,
\* every step leads to a state where every active loan has its user
\* registered.
C19_RemocaoSoComContadorZero ==
    /\ []RemocaoRecusada
    /\ [][/\ \A m \in DOMAIN usuarios \ DOMAIN usuarios' :
                 usuarios[m].emprestimos_ativos = 0
          /\ (ContadorCobreAtivos /\ AtivosTemUsuario) => AtivosTemUsuario']_vars

\* A user holds an active loan with the counter above zero, so remove_user
\* is refused, while another user without loans can be removed.
C19_Witness ==
    \E m, n \in DOMAIN usuarios :
        /\ AtivosDoUsuario(emprestimos, m) = 1
        /\ usuarios[m].emprestimos_ativos = 1
        /\ remover_usuario(usuarios, m).erro
               = UsuarioPossuiEmprestimosAtivosException
        /\ remover_usuario(usuarios, n).erro = OK

-----------------------------------------------------------------------------
\* C20: in every state reachable by register-book, create_loan,
\* return_loan, decrement_stock and increment_stock every book's stock is
\* >= 0; register-book with a negative stock is rejected and registers
\* nothing; decrement_stock on a book whose stock is 0 fails and leaves the
\* stock at 0.
C20_EstoqueNaoNegativo ==
    /\ \A b \in DOMAIN livros : livros[b].estoque >= 0
    /\ \A b \in ISBNs, n \in EstoquesEntrada :
           n < 0 =>
               LET r == cadastrar_livro(livros, b, TituloPadrao, AutorPadrao, n)
               IN  r.erro = ValidacaoException /\ r.livros = livros
    /\ \A b \in DOMAIN livros :
           livros[b].estoque = 0 =>
               LET r == decrementar_estoque(livros, b)
               IN  /\ r.erro = EstoqueInsuficienteException
                   /\ r.livros = livros
                   /\ r.livros[b].estoque = 0

\* A book registered with two copies is at stock 0 after one loan and one
\* direct decrement, and the other book is not registered yet.
C20_Witness ==
    \E b \in DOMAIN livros, c \in ISBNs :
        /\ c \notin DOMAIN livros
        /\ estoque_cadastrado[b] = 2
        /\ livros[b].estoque = 0
        /\ AtivosDoLivro(emprestimos, b) = 1

-----------------------------------------------------------------------------
\* C21: decrement_active_loans(id) fails for no id, registered or not, and
\* never makes a counter negative: a counter at 0 stays at 0, any other
\* counter goes down by exactly 1, and nothing else changes.
C21_DecrementoNuncaFalha ==
    \A m \in Matriculas :
        LET r == decrementar_emprestimos(usuarios, m)
        IN  /\ r.erro = OK
            /\ m \in DOMAIN usuarios =>
                   /\ r.usuarios[m].emprestimos_ativos >= 0
                   /\ r.usuarios[m].emprestimos_ativos =
                          IF usuarios[m].emprestimos_ativos = 0 THEN 0
                          ELSE usuarios[m].emprestimos_ativos - 1
                   /\ r.usuarios = [usuarios EXCEPT ![m].emprestimos_ativos =
                                        r.usuarios[m].emprestimos_ativos]

-----------------------------------------------------------------------------
\* The five reasons create_loan gives for refusing a loan.
CincoMotivos ==
    {UsuarioNaoEncontradoException, UsuarioBloqueadoException,
     LivroNaoEncontradoException, LivroIndisponvelException,
     EmprestimoJaExisteException}

ErrosPossiveis == {Criar(m, b).erro : m \in Matriculas, b \in ISBNs}

\* C22: a create_loan that fails fails for one of its five reasons and
\* leaves the whole state as it was: no loan inserted, the id counter not
\* advanced, no stock and no active-loan counter changed.
C22_FalhaNaoMudaNada ==
    \A m \in Matriculas, b \in ISBNs :
        LET r == Criar(m, b)
        IN  r.erro # OK =>
                /\ r.erro \in CincoMotivos
                /\ r.id = SemId
                /\ r.emprestimos = emprestimos
                /\ r.contador = contador_emprestimos
                /\ r.livros = livros
                /\ r.usuarios = usuarios

\* With a loan already made, create_loan can be refused for three
\* different reasons: duplicate, unknown user, unknown book.
C22_Witness ==
    /\ Len(emprestimos) >= 1
    /\ contador_emprestimos >= 1
    /\ EmprestimoJaExisteException \in ErrosPossiveis
    /\ UsuarioNaoEncontradoException \in ErrosPossiveis
    /\ LivroNaoEncontradoException \in ErrosPossiveis

\* C23: a create_loan that passes its five checks completes: the stock
\* decrement and the counter increment that follow the insertion do not
\* raise, so create_loan never ends, returning or raising, with a loan
\* inserted and the stock not decremented or the counter not incremented.
C23_MutacoesNaoFalham ==
    \A m \in Matriculas, b \in ISBNs :
        LET r == Criar(m, b)
        IN  /\ PrimeiraViolacao(m, b) = OK =>
                   /\ decrementar_estoque(livros, b).erro = OK
                   /\ incrementar_emprestimos(usuarios, m).erro = OK
                   /\ r.erro = OK
            /\ r.erro \notin {EstoqueInsuficienteException, ValidacaoException}
            /\ r.emprestimos # emprestimos =>
                   /\ r.erro = OK
                   /\ Len(r.emprestimos) = Len(emprestimos) + 1
                   /\ r.livros[b].estoque = livros[b].estoque - 1
                   /\ r.usuarios[m].emprestimos_ativos
                          = usuarios[m].emprestimos_ativos + 1

\* A user may borrow the last copy of a book that was removed and
\* registered again while a loan of it was active.
C23_Witness ==
    \E m \in DOMAIN usuarios, b \in DOMAIN livros :
        /\ PrimeiraViolacao(m, b) = OK
        /\ livros[b].estoque = 1
        /\ AtivosDoLivro(emprestimos, b) = 1

-----------------------------------------------------------------------------
\* C24: when every create_loan runs inside a critical section, at most one
\* active loan exists for each (user, book) pair in every reachable state,
\* and between calls the checks made as a first step agree with the
\* create_loan made in one step; without the critical section two calls
\* for the same pair can both pass the duplicate check and leave two
\* active loans of the pair (the witness).
C24_SecaoCriticaEvitaDuplicado ==
    secao_critica =>
        /\ \A m \in Matriculas, b \in ISBNs : AtivosDoPar(emprestimos, m, b) <= 1
        /\ TodosOciosos =>
               \A m \in Matriculas, b \in ISBNs :
                   (verificacoes(usuarios, livros, emprestimos, m, b) = OK)
                       <=> (Criar(m, b).erro = OK)

\* Without a critical section both callers passed the checks for the same
\* pair before either inserted, and both loans are in, active.
C24_Witness ==
    /\ ~secao_critica
    /\ \E m \in Matriculas, b \in ISBNs : AtivosDoPar(emprestimos, m, b) = 2

-----------------------------------------------------------------------------
\* One element per copy: of the current stock, and of the stock each
\* registered book was registered with.
CopiasEmEstoque ==
    UNION {{<<b, i>> : i \in 1..livros[b].estoque} : b \in DOMAIN livros}

CopiasCadastradas ==
    UNION {{<<b, i>> : i \in 1..estoque_cadastrado[b]} : b \in DOMAIN livros}

EmprestimosAtivos ==
    {k \in 1..Len(emprestimos) : emprestimos[k].status = "ATIVO"}

\* C25: after any sequence of loans and returns collection_summary()
\* reports total titles = the number of registered books, total copies =
\* the sum of the current stocks, which is the copies registered minus one
\* per active loan, and unavailable books = the number of books whose
\* current stock is exactly 0.
C25_RelatorioAcervo ==
    LET r == relatorio_acervo(livros, relogio)
    IN  /\ r.total_titulos = Cardinality(DOMAIN livros)
        /\ r.total_copias_disponiveis = Cardinality(CopiasEmEstoque)
        /\ r.total_copias_disponiveis
               = Cardinality(CopiasCadastradas) - Cardinality(EmprestimosAtivos)
        /\ r.livros_indisponveis
               = Cardinality({b \in DOMAIN livros : livros[b].estoque = 0})
        /\ r.livros_indisponveis
               = Cardinality({b \in DOMAIN livros :
                                 ~verificar_disponibilidade(livros, b)})

\* Two books are registered, both copies of one are lent, and a loan of
\* the other one was returned.
C25_Witness ==
    /\ Cardinality(DOMAIN livros) = 2
    /\ \E b \in DOMAIN livros : livros[b].estoque = 0
    /\ \E k \in 1..Len(emprestimos) : emprestimos[k].status = "DEVOLVIDO"
    /\ relatorio_acervo(livros, relogio).total_copias_disponiveis = 2
    /\ relatorio_acervo(livros, relogio).livros_indisponveis = 1

-----------------------------------------------------------------------------
\* C26: through the registry's public operations a user's status is active
\* (at registration and after an unblock) or blocked (after a block), never
\* inactive; hence user_summary() has active count + blocked count = total
\* count, and the total is the number of registered users.
C26_StatusAtivoOuBloqueado ==
    /\ \A m \in DOMAIN usuarios : usuarios[m].status \in {"ATIVO", "BLOQUEADO"}
    /\ \A m \in DOMAIN usuarios :
          /\ bloquear_usuario(usuarios, m).usuarios[m].status = "BLOQUEADO"
          /\ desbloquear_usuario(usuarios, m).usuarios[m].status = "ATIVO"
    /\ \A m \in Matriculas \ DOMAIN usuarios, n \in NomesEntrada, t \in TiposEntrada :
          LET r == cadastrar_usuario(usuarios, m, n, t)
          IN  r.erro = OK => r.usuarios[m].status = "ATIVO"
    /\ LET r == relatorio_usuarios(usuarios, relogio)
       IN  /\ r.usuarios_ativos + r.usuarios_bloqueados = r.total_usuarios
           /\ r.total_usuarios = Cardinality(DOMAIN usuarios)

\* Two users are registered, one of them blocked and the other one active,
\* and the summary counts one of each.
C26_Witness ==
    /\ Cardinality(DOMAIN usuarios) = 2
    /\ \E m \in DOMAIN usuarios : usuarios[m].status = "BLOQUEADO"
    /\ relatorio_usuarios(usuarios, relogio).usuarios_ativos = 1
    /\ relatorio_usuarios(usuarios, relogio).usuarios_bloqueados = 1

-----------------------------------------------------------------------------
NomeValido(n) == Len(n) \in NomeMin..NomeMax

\* C27: in every state reachable by register-user and edit-user calls every
\* registered user's name has between 3 and 100 characters, and both
\* operations reject a name shorter than 3 or longer than 100 characters
\* with a validation error and leave the stored user unchanged.
C27_NomeEntre3E100 ==
    /\ \A m \in DOMAIN usuarios : NomeValido(usuarios[m].nome)
    /\ \A m \in Matriculas \ DOMAIN usuarios, n \in NomesEntrada, t \in TiposEntrada :
          ~NomeValido(n) =>
              /\ cadastrar_usuario(usuarios, m, n, t).erro = ValidacaoException
              /\ cadastrar_usuario(usuarios, m, n, t).usuarios = usuarios
    /\ \A m \in DOMAIN usuarios, n \in NomesEntrada, t \in Opcional(TiposEntrada) :
          ~NomeValido(n) =>
              /\ editar_usuario(usuarios, m, Some(n), t).erro = ValidacaoException
              /\ editar_usuario(usuarios, m, Some(n), t).usuarios = usuarios

-----------------------------------------------------------------------------
\* --- Status fields next to loans ------------------------------------------
\* Status names as callers write them; "Disponível" is the enum's value, not
\* one of its names, and is refused.
StatusEntrada == {"DISPONIVEL", "emprestado", "reservado", "Disponível"}

NextStatus ==
    \/ \E m \in Matriculas : CadastrarUsuario(m, NomePadrao, "aluno")
    \/ \E m \in Matriculas : BloquearUsuario(m)
    \/ \E m \in Matriculas : DesbloquearUsuario(m)
    \/ \E b \in ISBNs, n \in EstoquesRegistros :
           CadastrarLivro(b, TituloPadrao, AutorPadrao, n)
    \/ \E b \in ISBNs, s \in StatusEntrada : AtualizarStatus(b, s)
    \/ \E m \in Matriculas, b \in ISBNs : RegistrarEmprestimo(m, b, DiasPadrao)
    \/ \E id \in IdsEntrada : RegistrarDevolucao(id)

SpecStatus == Init /\ [][NextStatus]_vars

StatusDosUsuarios(us) == [m \in DOMAIN us |-> us[m].status]
StatusDosLivros(ls) == [b \in DOMAIN ls |-> ls[b].status]

\* The user could borrow the book as far as the user and the pair go.
PodeTomar(m, b) ==
    /\ m \in DOMAIN usuarios
    /\ usuarios[m].status # "BLOQUEADO"
    /\ b \in DOMAIN livros
    /\ AtivosDoPar(emprestimos, m, b) = 0

\* C28: create_loan and return_loan never change the status field of any
\* book or user, whether they succeed or fail; create_loan's availability
\* check looks at the stock only, so a book with no copy left is refused
\* whatever its status (it may still say available) and a book marked
\* loaned or reserved with a copy in stock is lent; return_loan's outcome
\* does not depend on the user's status, so the active loan of a user who
\* has since been blocked is returned.
C28_StatusForaDosEmprestimos ==
    /\ \A m \in Matriculas, b \in ISBNs :
          /\ StatusDosUsuarios(Criar(m, b).usuarios) = StatusDosUsuarios(usuarios)
          /\ StatusDosLivros(Criar(m, b).livros) = StatusDosLivros(livros)
    /\ \A id \in IdsEntrada :
          /\ StatusDosUsuarios(Devolucao(id).usuarios) = StatusDosUsuarios(usuarios)
          /\ StatusDosLivros(Devolucao(id).livros) = StatusDosLivros(livros)
    /\ \A m \in Matriculas, b \in DOMAIN livros, s \in StatusLivro :
          registrar_emprestimo(usuarios, [livros EXCEPT ![b].status = s],
                               emprestimos, contador_emprestimos, relogio,
                               m, b, DiasPadrao).erro = Criar(m, b).erro
    /\ \A m \in Matriculas, b \in ISBNs :
          PodeTomar(m, b) =>
              IF livros[b].estoque > 0
              THEN Criar(m, b).erro = OK
              ELSE /\ Criar(m, b).erro = LivroIndisponvelException
                   /\ NadaMudou(Criar(m, b))
    /\ \A id \in IdsEntrada, m \in DOMAIN usuarios, s \in StatusUsuario :
          registrar_devolucao([usuarios EXCEPT ![m].status = s], livros,
                              emprestimos, contador_emprestimos, relogio,
                              id).erro = Devolucao(id).erro
    /\ \A k \in 1..Len(emprestimos) :
          (/\ EhAtivo(emprestimos[k])
           /\ usuarios[emprestimos[k].matricula_usuario].status = "BLOQUEADO")
              => Devolucao(emprestimos[k].id_emprestimo).erro = OK

\* The only copy of one book is lent to a user who has since been blocked:
\* the book still says available, a further loan of it is refused and the
\* return is accepted; the other book is marked loaned or reserved, has a
\* copy in stock and is lent to the other user.
C28_Witness ==
    \E k \in 1..Len(emprestimos), m \in DOMAIN usuarios, b \in DOMAIN livros :
        /\ EhAtivo(emprestimos[k])
        /\ usuarios[emprestimos[k].matricula_usuario].status = "BLOQUEADO"
        /\ livros[emprestimos[k].isbn_livro].estoque = 0
        /\ livros[emprestimos[k].isbn_livro].status = "DISPONIVEL"
        /\ Criar(m, emprestimos[k].isbn_livro).erro = LivroIndisponvelException
        /\ Devolucao(emprestimos[k].id_emprestimo).erro = OK
        /\ livros[b].status \in {"EMPRESTADO", "RESERVADO"}
        /\ livros[b].estoque > 0
        /\ Criar(m, b).erro = OK
=============================================================================
